---- MODULE Spec2Model ----
(***************************************************************************)
(* Model of simulate_federated_training (src/dp_fl_dashboard.py).          *)
(*                                                                         *)
(* Real numbers are fixed-point integers in thousandths (1.0 is 1000), so  *)
(* every literal of the source is an exact integer and sums are exact.     *)
(* global_accuracy is a quotient and is kept as an exact fraction          *)
(* [num, den].  Floating-point rounding is not modelled.                   *)
(*                                                                         *)
(* The random source is a tape: a draw past the end of the tape picks a    *)
(* fresh value and records it, a draw inside the tape replays it.          *)
(* Re-seeding with the same seed rewinds the tape.  The function is        *)
(* invoked twice with the same arguments, the second time after the        *)
(* re-seed.                                                                *)
(***************************************************************************)
EXTENDS Integers, Sequences, FiniteSets, TLC

\* ---- bounds ----
MaxClients == 2
MaxRounds == 9
\* a run makes at most this many draws: num_clients * (1 + num_rounds)
MaxDraws == 10

\* ---- literals of the source, in thousandths ----
One == 1000
SeedLo == 400
SeedHi == 600
IncLo == 10
IncHi == 30
RoundGain == 5
NoiseDamp == 10
AdvBase == 200
AdvPerRound == 100
AdvNoise == 50
AdvFloor == 100
NaiveBase == 500
NaivePerRound == 200
SleepMs == 500

\* noise_multiplier arguments: 0.0, 1.0, 3.0, 100.0
NoiseValues == {0, 1000, 3000, 100000}

\* values of random.random() the tape may hold: the two ends of [0, 1]
UnitDraws == {0, One}

VARIABLES
    num_clients, noise_multiplier, num_rounds,
    pc, invocation, exception, first_return,
    results, global_epsilon, naive_epsilon, client_accuracies,
    rnd, c, global_accuracy, per_client_acc,
    tape, pos, elapsed

args == <<num_clients, noise_multiplier, num_rounds>>
locals == <<results, global_epsilon, naive_epsilon, client_accuracies,
            rnd, c, global_accuracy, per_client_acc>>
rng == <<tape, pos>>
vars == <<args, pc, invocation, exception, first_return, locals, rng, elapsed>>

\* ---- arithmetic ----
Min(a, b) == IF a <= b THEN a ELSE b
Max(a, b) == IF a >= b THEN a ELSE b
\* product of two fixed-point numbers
Mul(a, b) == (a * b) \div One
Last(s) == s[Len(s)]

\* random.uniform(a, b) == a + (b - a) * random(), u the value of random()
uniform(a, b, u) == a + Mul(b - a, u)

Configs ==
    {cfg \in [num_clients : 0..MaxClients, num_rounds : 0..MaxRounds,
              noise_multiplier : NoiseValues] :
        cfg.num_clients * (1 + cfg.num_rounds) <= MaxDraws}

Zero == [num |-> 0, den |-> 1]

Init ==
    /\ \E cfg \in Configs :
          /\ num_clients = cfg.num_clients
          /\ num_rounds = cfg.num_rounds
          /\ noise_multiplier = cfg.noise_multiplier
    /\ pc = "idle"
    /\ invocation = 1
    /\ exception = "none"
    /\ first_return = <<>>
    /\ results = <<>>
    /\ global_epsilon = 0
    /\ naive_epsilon = 0
    /\ client_accuracies = <<>>
    /\ rnd = 0
    /\ c = 0
    /\ global_accuracy = Zero
    /\ per_client_acc = <<>>
    /\ tape = <<>>
    /\ pos = 0
    /\ elapsed = 0

\* Draw with the generator advanced twice per call
DrawTwice(u) ==
    /\ IF pos < Len(tape)
          THEN u = tape[pos + 1] /\ tape' = tape
          ELSE u \in UnitDraws /\ tape' = tape \o <<u, u>>
    /\ pos' = pos + 2

\* one call of random.random(): u is the value it returns
Draw(u) ==
    /\ IF pos < Len(tape)
          THEN u = tape[pos + 1] /\ tape' = tape
          ELSE u \in UnitDraws /\ tape' = Append(tape, u)
    /\ pos' = pos + 1

\* Call with global_epsilon kept from the previous invocation
CallStale ==
    /\ pc = "idle"
    /\ results' = <<>>
    /\ naive_epsilon' = 0
    /\ client_accuracies' = <<>>
    /\ c' = 0
    /\ rnd' = 0
    /\ pc' = "init"
    /\ UNCHANGED <<args, invocation, exception, first_return, global_epsilon,
                   global_accuracy, per_client_acc, rng, elapsed>>

\* lines 5-11: entry, the accumulators start fresh
Call ==
    /\ pc = "idle"
    /\ results' = <<>>
    /\ global_epsilon' = 0
    /\ naive_epsilon' = 0
    /\ client_accuracies' = <<>>
    /\ c' = 0
    /\ rnd' = 0
    /\ pc' = "init"
    /\ UNCHANGED <<args, invocation, exception, first_return,
                   global_accuracy, per_client_acc, rng, elapsed>>

\* line 14: one element of the list comprehension
InitClient ==
    /\ pc = "init"
    /\ c < num_clients
    /\ \E u \in UnitDraws :
          /\ Draw(u)
          /\ client_accuracies' =
                Append(client_accuracies, <<uniform(SeedLo, SeedHi, u)>>)
    /\ c' = c + 1
    /\ UNCHANGED <<args, pc, invocation, exception, first_return, results,
                   global_epsilon, naive_epsilon, rnd, global_accuracy,
                   per_client_acc, elapsed>>

\* line 14 -> line 16: the comprehension is exhausted
InitDone ==
    /\ pc = "init"
    /\ c >= num_clients
    /\ pc' = "for"
    /\ UNCHANGED <<args, invocation, exception, first_return, locals, rng,
                   elapsed>>

\* ForRound over range(1, num_rounds)
ForRoundShort ==
    /\ pc = "for"
    /\ IF rnd + 1 < num_rounds
          THEN /\ rnd' = rnd + 1
               /\ global_accuracy' = Zero
               /\ per_client_acc' = <<>>
               /\ c' = 0
               /\ pc' = "clients"
          ELSE /\ pc' = "return"
               /\ UNCHANGED <<rnd, global_accuracy, per_client_acc, c>>
    /\ UNCHANGED <<args, invocation, exception, first_return, results,
                   global_epsilon, naive_epsilon, client_accuracies, rng,
                   elapsed>>

\* ForRound over range(1, num_rounds + 2)
ForRoundExtra ==
    /\ pc = "for"
    /\ IF rnd + 1 < num_rounds + 2
          THEN /\ rnd' = rnd + 1
               /\ global_accuracy' = Zero
               /\ per_client_acc' = <<>>
               /\ c' = 0
               /\ pc' = "clients"
          ELSE /\ pc' = "return"
               /\ UNCHANGED <<rnd, global_accuracy, per_client_acc, c>>
    /\ UNCHANGED <<args, invocation, exception, first_return, results,
                   global_epsilon, naive_epsilon, client_accuracies, rng,
                   elapsed>>

\* ForRound with "global_accuracy = 0.0" hoisted out of the loop
ForRoundNoReset ==
    /\ pc = "for"
    /\ IF rnd + 1 < num_rounds + 1
          THEN /\ rnd' = rnd + 1
               /\ global_accuracy' = global_accuracy
               /\ per_client_acc' = <<>>
               /\ c' = 0
               /\ pc' = "clients"
          ELSE /\ pc' = "return"
               /\ UNCHANGED <<rnd, global_accuracy, per_client_acc, c>>
    /\ UNCHANGED <<args, invocation, exception, first_return, results,
                   global_epsilon, naive_epsilon, client_accuracies, rng,
                   elapsed>>

\* lines 16-20: the head of "for rnd in range(1, num_rounds + 1)"
ForRound ==
    /\ pc = "for"
    /\ IF rnd + 1 < num_rounds + 1
          THEN /\ rnd' = rnd + 1
               /\ global_accuracy' = Zero
               /\ per_client_acc' = <<>>
               /\ c' = 0
               /\ pc' = "clients"
          ELSE /\ pc' = "return"
               /\ UNCHANGED <<rnd, global_accuracy, per_client_acc, c>>
    /\ UNCHANGED <<args, invocation, exception, first_return, results,
                   global_epsilon, naive_epsilon, client_accuracies, rng,
                   elapsed>>

\* AccIncrement with the damping 0.1 * noise_multiplier
AccIncrementHeavy(u, r, noise) ==
    uniform(IncLo, IncHi, u) + RoundGain * r - Mul(10 * NoiseDamp, noise)

\* line 22, u the value of random.random()
AccIncrement(u, r, noise) ==
    uniform(IncLo, IncHi, u) + RoundGain * r - Mul(NoiseDamp, noise)

\* NewAcc without the clamp
NewAccNoClamp(prev, inc) == prev + inc

\* line 23
NewAcc(prev, inc) == Min(prev + inc, One)

\* lines 21-26: the body of "for c in range(num_clients)"
UpdateClient ==
    /\ pc = "clients"
    /\ c < num_clients
    /\ \E u \in UnitDraws :
          /\ Draw(u)
          /\ LET acc_increment == AccIncrement(u, rnd, noise_multiplier)
                 new_acc == NewAcc(Last(client_accuracies[c + 1]), acc_increment)
             IN /\ client_accuracies' =
                      [client_accuracies EXCEPT ![c + 1] = Append(@, new_acc)]
                /\ per_client_acc' = Append(per_client_acc, new_acc)
                /\ global_accuracy' =
                      [global_accuracy EXCEPT !.num = @ + new_acc * global_accuracy.den]
    /\ c' = c + 1
    /\ UNCHANGED <<args, pc, invocation, exception, first_return, results,
                   global_epsilon, naive_epsilon, rnd, elapsed>>

\* line 31
EpsIncrementAdv(r, noise) == AdvBase + AdvPerRound * r - Mul(AdvNoise, noise)

\* AdvStep without the floor
AdvStepNoFloor(r, noise) == EpsIncrementAdv(r, noise)

\* line 34, the amount added
AdvStep(r, noise) == Max(EpsIncrementAdv(r, noise), AdvFloor)

\* EpsIncrementNaive with the two coefficients swapped
EpsIncrementNaiveSwapped(r) == NaivePerRound + NaiveBase * r

\* line 32
EpsIncrementNaive(r) == NaiveBase + NaivePerRound * r

\* lines 28-45: the mean, the epsilons, the record, the pause
EndRound ==
    /\ pc = "clients"
    /\ c >= num_clients
    /\ IF num_clients = 0
          THEN /\ exception' = "ZeroDivisionError"
               /\ pc' = "raised"
               /\ UNCHANGED <<global_accuracy, global_epsilon, naive_epsilon,
                              results, elapsed>>
          ELSE /\ global_accuracy' =
                     [global_accuracy EXCEPT !.den = @ * num_clients]
               /\ global_epsilon' = global_epsilon + AdvStep(rnd, noise_multiplier)
               /\ naive_epsilon' = naive_epsilon + EpsIncrementNaive(rnd)
               /\ results' = Append(results,
                     [round |-> rnd,
                      global_accuracy |-> global_accuracy',
                      epsilon_advanced |-> global_epsilon',
                      epsilon_naive |-> naive_epsilon',
                      client_accuracies |-> per_client_acc])
               /\ elapsed' = elapsed + SleepMs
               /\ pc' = "for"
               /\ UNCHANGED exception
    /\ UNCHANGED <<args, invocation, first_return, client_accuracies, rnd, c,
                   per_client_acc, rng>>

\* line 47
Return ==
    /\ pc = "return"
    /\ pc' = "returned"
    /\ UNCHANGED <<args, invocation, exception, first_return, locals, rng,
                   elapsed>>

\* the caller keeps the first result, re-seeds the random source with the
\* same seed and calls again with the same arguments
Reinvoke ==
    /\ pc = "returned"
    /\ invocation = 1
    /\ first_return' = <<results, client_accuracies>>
    /\ invocation' = 2
    /\ pos' = 0
    /\ pc' = "idle"
    /\ UNCHANGED <<args, exception, locals, tape, elapsed>>

Next ==
    \/ Call
    \/ InitClient
    \/ InitDone
    \/ ForRound
    \/ UpdateClient
    \/ EndRound
    \/ Return
    \/ Reinvoke

Spec == Init /\ [][Next]_vars

\* ---- what the claims speak of ----
RECURSIVE SumSeq(_)
SumSeq(s) == IF s = <<>> THEN 0 ELSE s[1] + SumSeq(Tail(s))

\* SimulationConfig invariant of the data model
ValidConfig == num_clients >= 1 /\ num_rounds >= 1 /\ noise_multiplier > 0

InUnit(x) == 0 <= x /\ x <= One
FracInUnit(q) == 0 <= q.num /\ q.num <= q.den * One

\* sum over i = 1..r of (0.5 + 0.2 i)
RECURSIVE NaiveSum(_)
NaiveSum(r) == IF r = 0 THEN 0 ELSE NaiveSum(r - 1) + 500 + 200 * r

\* sum over i = 1..r of max(0.2 + 0.1 i - 0.05 noise, 0.1)
RECURSIVE AdvSum(_, _)
AdvSum(r, noise) ==
    IF r = 0 THEN 0
    ELSE LET t == 200 + 100 * r - noise \div 20
         IN AdvSum(r - 1, noise) + (IF t > 100 THEN t ELSE 100)

\* C1: a call with client_count >= 1 and round_count >= 1 returns exactly
\* round_count records and exactly client_count tracks, each track of
\* round_count + 1 entries.
C1_Lengths ==
    (pc = "returned" /\ num_clients >= 1 /\ num_rounds >= 1) =>
        /\ Len(results) = num_rounds
        /\ Len(client_accuracies) = num_clients
        /\ \A k \in 1..Len(client_accuracies) :
              Len(client_accuracies[k]) = num_rounds + 1

C1_Witness ==
    /\ pc = "returned"
    /\ num_clients = 2
    /\ num_rounds >= 2
    /\ Len(results) = num_rounds
    /\ Len(client_accuracies[2]) = num_rounds + 1

\* C2: for noise_multiplier >= 0 the recorded epsilon_advanced and
\* epsilon_naive are each strictly increasing from record to record, and the
\* first record's values are strictly greater than 0.
C2_EpsilonStrictlyIncreasing ==
    (noise_multiplier >= 0 /\ num_clients >= 1 /\ num_rounds >= 1) =>
        \A i \in 1..Len(results) :
            /\ results[i].epsilon_advanced >
                  (IF i = 1 THEN 0 ELSE results[i - 1].epsilon_advanced)
            /\ results[i].epsilon_naive >
                  (IF i = 1 THEN 0 ELSE results[i - 1].epsilon_naive)

\* the floor of the advanced increment is what keeps the sum rising
C2_Witness ==
    /\ pc = "returned"
    /\ Len(results) >= 3
    /\ EpsIncrementAdv(1, noise_multiplier) < 0
    /\ results[2].epsilon_advanced > results[1].epsilon_advanced

\* C3: for a valid config with noise_multiplier <= 3 the global_accuracy of
\* every record lies in [0, 1], whatever the draws.
C3_GlobalAccuracyInUnit ==
    (ValidConfig /\ noise_multiplier <= 3 * One) =>
        \A i \in 1..Len(results) : FracInUnit(results[i].global_accuracy)

\* a valid run in which the clamp acted: the mean is exactly 1.0
C3_Witness ==
    /\ pc = "returned"
    /\ ValidConfig
    /\ noise_multiplier <= 3 * One
    /\ \E i \in 1..Len(results) :
          /\ results[i].global_accuracy.num = results[i].global_accuracy.den * One
          /\ \E k \in 1..num_clients :
                client_accuracies[k][i] + IncHi + RoundGain * i
                   - Mul(NoiseDamp, noise_multiplier) > One

\* C4: a call with client_count = 0 and round_count >= 1 ends by raising
\* InvalidConfiguration, not an arithmetic fault.
C4_InvalidConfiguration ==
    (num_clients = 0 /\ num_rounds >= 1 /\ pc \in {"raised", "returned"}) =>
        (pc = "raised" /\ exception = "InvalidConfiguration")

\* C5 as stated: for a valid config every value of every track lies in
\* [0, 1].
C5_TrackValuesInUnit ==
    ValidConfig =>
        \A k \in 1..Len(client_accuracies) :
            \A j \in 1..Len(client_accuracies[k]) :
                InUnit(client_accuracies[k][j])

\* C5 amended: for a valid config every seed lies in [0.4, 0.6] and every
\* value of every track is at most 1; the values are also at least 0 when
\* noise_multiplier <= 3.
C5_TrackValuesAtMostOne ==
    ValidConfig =>
        \A k \in 1..Len(client_accuracies) :
            /\ SeedLo <= client_accuracies[k][1]
            /\ client_accuracies[k][1] <= SeedHi
            /\ \A j \in 1..Len(client_accuracies[k]) :
                  /\ client_accuracies[k][j] <= One
                  /\ noise_multiplier <= 3 * One => client_accuracies[k][j] >= 0

\* a valid run whose heavy damping takes a track below 0
C5_Witness ==
    /\ pc = "returned"
    /\ ValidConfig
    /\ noise_multiplier > 3 * One
    /\ \E k \in 1..Len(client_accuracies) :
          /\ client_accuracies[k][1] >= SeedLo
          /\ client_accuracies[k][2] < 0

\* C6 as stated: a full run makes 2 * client_count + round_count *
\* client_count draws.
C6_DrawCountDoubled ==
    pc = "returned" => pos = 2 * num_clients + num_rounds * num_clients

\* C6 amended: a full run makes client_count + round_count * client_count
\* draws.
C6_DrawCount ==
    pc = "returned" => pos = num_clients + num_rounds * num_clients

C6_Witness ==
    /\ pc = "returned"
    /\ num_clients = 2
    /\ num_rounds = 3
    /\ pos = 8

\* C7: a call with round_count = 0 and client_count >= 1 raises nothing and
\* returns no record and client_count tracks that hold the seed only.
C7_NoRounds ==
    (num_rounds = 0 /\ num_clients >= 1) =>
        /\ pc # "raised"
        /\ pc = "returned" =>
              /\ results = <<>>
              /\ Len(client_accuracies) = num_clients
              /\ \A k \in 1..Len(client_accuracies) :
                    /\ Len(client_accuracies[k]) = 1
                    /\ SeedLo <= client_accuracies[k][1]
                    /\ client_accuracies[k][1] <= SeedHi

C7_Witness ==
    /\ pc = "returned"
    /\ num_rounds = 0
    /\ num_clients = 2
    /\ Len(client_accuracies) = 2

\* C8: record r holds epsilon_naive = sum over i = 1..r of (0.5 + 0.2 i) and
\* epsilon_advanced = sum over i = 1..r of max(0.2 + 0.1 i - 0.05 noise, 0.1),
\* whatever the client count and the draws; with noise 1.0 the first record
\* holds 0.25 and 0.7.
C8_EpsilonClosedForm ==
    /\ \A i \in 1..Len(results) :
          /\ results[i].epsilon_naive = NaiveSum(i)
          /\ results[i].epsilon_advanced = AdvSum(i, noise_multiplier)
    /\ (noise_multiplier = One /\ Len(results) >= 1) =>
          /\ results[1].epsilon_advanced = 250
          /\ results[1].epsilon_naive = 700

C8_Witness ==
    /\ pc = "returned"
    /\ noise_multiplier = One
    /\ num_clients = 2
    /\ Len(results) = 4
    /\ results[1].epsilon_advanced = 250
    /\ results[4].epsilon_naive = NaiveSum(4)

\* C9: in every record global_accuracy is the sum of the record's per-client
\* values divided by client_count, and those values are the ones appended to
\* the tracks in that round.
C9_GlobalAccuracyIsMean ==
    num_clients >= 1 =>
        \A i \in 1..Len(results) :
            LET rec == results[i]
            IN /\ Len(rec.client_accuracies) = num_clients
               /\ rec.global_accuracy.num * num_clients =
                     SumSeq(rec.client_accuracies) * rec.global_accuracy.den
               /\ \A k \in 1..num_clients :
                     rec.client_accuracies[k] = client_accuracies[k][i + 1]

\* two clients with different values, more than one round
C9_Witness ==
    /\ pc = "returned"
    /\ num_clients = 2
    /\ Len(results) >= 2
    /\ results[2].client_accuracies[1] # results[2].client_accuracies[2]

\* C10: the second invocation, with the same arguments and the same draws,
\* returns what the first returned.
C10_SameDrawsSameResult ==
    (pc = "returned" /\ invocation = 2) =>
        <<results, client_accuracies>> = first_return

C10_Witness ==
    /\ pc = "returned"
    /\ invocation = 2
    /\ num_clients = 2
    /\ Len(results) >= 2
    /\ first_return[1] = results


====
